---- MODULE Spec2Model ----
(***************************************************************************)
(* Model of lenstronomy/SimulationAPI/ObservationConfig/LSST.py.           *)
(*                                                                         *)
(* Python dictionaries live in a heap (address -> dictionary) so that      *)
(* aliasing and copying are distinguishable.  A dictionary is a TLA+       *)
(* function from key strings to values.  Float values are written in       *)
(* hundredths (15. is 1500, 22.99 is 2299, 0.2 is 20, 2.3 is 230);         *)
(* integer values (num_exposures, read_noise) are written as they are.     *)
(* A band string is a sequence of one-character strings.                   *)
(*                                                                         *)
(* Each caller thread holds at most one LSST instance (its obs and camera  *)
(* attributes are references into the heap) and up to two mappings         *)
(* returned by kwargs_single_band.  A thread drops its previous instance   *)
(* and results (Drop) before it constructs again.                          *)
(***************************************************************************)
EXTENDS Integers, Sequences, FiniteSets, TLC

VARIABLES heap, th

vars == <<heap, th>>

(* ------------------------------ bounds -------------------------------- *)

\* band arguments are the character sequences of length 0..MaxBandLen
MaxBandLen == 1

\* coadd_years arguments range over (1 - CoaddSlack) .. (10 + CoaddSlack)
CoaddSlack == 2

Chars == {"u", "g", "r", "i", "z", "y", "U", "G", "R", "I", "Z", "Y", "x", "1"}

RECURSIVE SeqsUpTo(_)
SeqsUpTo(n) ==
  IF n = 0 THEN {<<>>}
  ELSE LET shorter == SeqsUpTo(n - 1)
       IN shorter \cup {Append(s, c) : s \in {x \in shorter : Len(x) = n - 1}, c \in Chars}

BandInputs == SeqsUpTo(MaxBandLen)

PsfInputs == {"GAUSSIAN", "gaussian", "MOFFAT"}

CoaddInputs == (1 - CoaddSlack) .. (10 + CoaddSlack)

\* the values a caller stores into a dictionary
PokeValues == {1}

\* keys a caller stores into: an observation key and a camera key
ObsMutKeys == {"num_exposures", "read_noise"}

CameraMutKeys == {"read_noise"}

ResultMutKeys == {"num_exposures", "read_noise"}

Slots == {"kwargs1", "kwargs2"}

\* inputs of the two-thread specification
ConcThreads == {"t1", "t2"}

ConcBandInputs == {<<"g">>, <<"Z">>, <<"x">>}

ConcPsfInputs == {"GAUSSIAN", "gaussian"}

ConcCoaddInputs == {5, 11}

ConcSlots == {"kwargs1"}

(* ------------------------- module-level data -------------------------- *)

u_band_obs ==
  [exposure_time |-> 1500, sky_brightness |-> 2299, magnitude_zero_point |-> 2650,
   num_exposures |-> 140, seeing |-> 81, psf_type |-> "GAUSSIAN"]

g_band_obs ==
  [exposure_time |-> 1500, sky_brightness |-> 2226, magnitude_zero_point |-> 2830,
   num_exposures |-> 200, seeing |-> 77, psf_type |-> "GAUSSIAN"]

r_band_obs ==
  [exposure_time |-> 1500, sky_brightness |-> 2120, magnitude_zero_point |-> 2813,
   num_exposures |-> 460, seeing |-> 73, psf_type |-> "GAUSSIAN"]

i_band_obs ==
  [exposure_time |-> 1500, sky_brightness |-> 2048, magnitude_zero_point |-> 2779,
   num_exposures |-> 460, seeing |-> 71, psf_type |-> "GAUSSIAN"]

z_band_obs ==
  [exposure_time |-> 1500, sky_brightness |-> 1960, magnitude_zero_point |-> 2740,
   num_exposures |-> 400, seeing |-> 69, psf_type |-> "GAUSSIAN"]

y_band_obs ==
  [exposure_time |-> 1500, sky_brightness |-> 1861, magnitude_zero_point |-> 2658,
   num_exposures |-> 400, seeing |-> 68, psf_type |-> "GAUSSIAN"]

\* the dictionary literal assigned to self.camera
camera_literal == [read_noise |-> 10, pixel_scale |-> 20, ccd_gain |-> 230]

TemplateNames ==
  {"u_band_obs", "g_band_obs", "r_band_obs", "i_band_obs", "z_band_obs", "y_band_obs"}

\* the dictionary each module-level name is bound to when the module is loaded
ModuleDict(name) ==
  CASE name = "u_band_obs" -> u_band_obs
    [] name = "g_band_obs" -> g_band_obs
    [] name = "r_band_obs" -> r_band_obs
    [] name = "i_band_obs" -> i_band_obs
    [] name = "z_band_obs" -> z_band_obs
    [] name = "y_band_obs" -> y_band_obs

(* ------------------------------- heap --------------------------------- *)

None == <<"None", "None">>

ModuleAddr(name) == <<"module", name>>

\* the cell a thread's allocation lands in; the thread released it before
OwnAddr(t, attr) == <<t, attr>>

Release(h, t) == [a \in {x \in DOMAIN h : x[1] # t} |-> h[a]]

Alloc(h, a, d) == [x \in DOMAIN h \cup {a} |-> IF x = a THEN d ELSE h[x]]

\* d[k] = v on a Python dict
Store(d, k, v) == [x \in DOMAIN d \cup {k} |-> IF x = k THEN v ELSE d[x]]

(* --------------------------- pure helpers ----------------------------- *)

UpperLetters == {"U", "G", "R", "I", "Z", "Y", "X"}

LowerLetters == {"u", "g", "r", "i", "z", "y", "x"}

\* str.isalpha: non-empty and every character a letter
isalpha(band) ==
  /\ Len(band) > 0
  /\ \A n \in 1 .. Len(band) : band[n] \in UpperLetters \cup LowerLetters

lower_char(c) ==
  CASE c = "U" -> "u"
    [] c = "G" -> "g"
    [] c = "R" -> "r"
    [] c = "I" -> "i"
    [] c = "Z" -> "z"
    [] c = "Y" -> "y"
    [] c = "X" -> "x"
    [] OTHER -> c

\* str.lower
lower(band) == [n \in 1 .. Len(band) |-> lower_char(band[n])]

NotLowered(band) == band

\* lines 75-76: the value of the local band after the isalpha test
Lowered(band) == IF isalpha(band) THEN lower(band) ELSE band

BandTemplateDefaultG(b) ==
  CASE b = <<"g">> -> "g_band_obs"
    [] b = <<"r">> -> "r_band_obs"
    [] b = <<"i">> -> "i_band_obs"
    [] b = <<"u">> -> "u_band_obs"
    [] b = <<"z">> -> "z_band_obs"
    [] b = <<"y">> -> "y_band_obs"
    [] OTHER -> "g_band_obs"

\* lines 77-90: the if/elif chain; "unsupported" is the else branch
BandTemplate(b) ==
  CASE b = <<"g">> -> "g_band_obs"
    [] b = <<"r">> -> "r_band_obs"
    [] b = <<"i">> -> "i_band_obs"
    [] b = <<"u">> -> "u_band_obs"
    [] b = <<"z">> -> "z_band_obs"
    [] b = <<"y">> -> "y_band_obs"
    [] OTHER -> "unsupported"

AliasTemplate(h, t, name) == [ref |-> ModuleAddr(name), heap |-> h]

\* copy.deepcopy(<name>): a new dictionary with the template's items
deepcopy(h, t, name) ==
  [ref |-> OwnAddr(t, "obs"), heap |-> Alloc(h, OwnAddr(t, "obs"), h[ModuleAddr(name)])]

PsfSupportedAnyCase(psf_type) == psf_type \in {"GAUSSIAN", "gaussian"}

\* line 92
PsfSupported(psf_type) == psf_type = "GAUSSIAN"

CoaddSupportedOffByOne(coadd_years) == ~(coadd_years > 10 \/ coadd_years < 0)

\* line 95
CoaddSupported(coadd_years) == ~(coadd_years > 10 \/ coadd_years < 1)

ScaledNoDivide(coadd_years, num_exposures) == coadd_years * num_exposures

\* line 98: coadd_years*self.obs['num_exposures']//10
ScaledExposures(coadd_years, num_exposures) == (coadd_years * num_exposures) \div 10

\* util.merge_dicts(a, b): a new dict updated with a, then with b
merge_dicts(a, b) ==
  [k \in DOMAIN a \cup DOMAIN b |-> IF k \in DOMAIN b THEN b[k] ELSE a[k]]

followingPsfLast(stage) ==
  CASE stage = "band" -> "coadd"
    [] stage = "coadd" -> "psf"
    [] stage = "psf" -> "camera"
    [] stage = "camera" -> "ready"

\* the order of the statements of __init__
following(stage) ==
  CASE stage = "band" -> "psf"
    [] stage = "psf" -> "coadd"
    [] stage = "coadd" -> "camera"
    [] stage = "camera" -> "ready"

kwargsSwapped(h, self, t, s) ==
  [ref |-> OwnAddr(t, s),
   heap |-> Alloc(h, OwnAddr(t, s), merge_dicts(h[self.obs], h[self.camera]))]

kwargsInPlace(h, self, t, s) ==
  [ref |-> self.camera,
   heap |-> [h EXCEPT ![self.camera] = merge_dicts(h[self.camera], h[self.obs])]]

\* lines 113-114: the mapping kwargs_single_band returns
kwargs(h, self, t, s) ==
  [ref |-> OwnAddr(t, s),
   heap |-> Alloc(h, OwnAddr(t, s), merge_dicts(h[self.camera], h[self.obs]))]

(* ------------------------------ state --------------------------------- *)

NoResults == [s \in Slots |-> None]

\* a thread before its first call; the arguments are the defaults of __init__
Idle ==
  [pc |-> "idle", band |-> <<"g">>, psf_type |-> "GAUSSIAN", coadd_years |-> 10,
   obs |-> None, camera |-> None, results |-> NoResults, raised |-> "none",
   pristine |-> FALSE]

ModuleHeap == [a \in {ModuleAddr(n) : n \in TemplateNames} |-> ModuleDict(a[2])]

Init ==
  /\ heap = ModuleHeap
  /\ th = [t \in {"t1"} |-> Idle]

InitConc ==
  /\ heap = ModuleHeap
  /\ th = [t \in ConcThreads |-> Idle]

(* ----------------------------- actions -------------------------------- *)

\* a raise inside __init__: no instance reaches the caller
Raise(t, kind) ==
  /\ th' = [th EXCEPT ![t].pc = "idle", ![t].raised = kind,
                      ![t].obs = None, ![t].camera = None]
  /\ heap' = Release(heap, t)

\* LSST(band, psf_type, coadd_years) is called, the arguments drawn from the
\* given sets
Call(t, bands, psf_types, coadds) ==
  /\ th[t] = Idle
  /\ \E band \in bands, psf_type \in psf_types, coadd_years \in coadds :
       th' = [th EXCEPT ![t] = [Idle EXCEPT !.pc = "band", !.band = band,
                                            !.psf_type = psf_type,
                                            !.coadd_years = coadd_years]]
  /\ heap' = heap

\* the caller drops its instance and results, or has handled the ValueError
Drop(t) ==
  /\ th[t].pc \in {"idle", "ready"}
  /\ th[t] # Idle
  /\ th' = [th EXCEPT ![t] = Idle]
  /\ heap' = Release(heap, t)

\* lines 75-90
SelectBand(t) ==
  /\ th[t].pc = "band"
  /\ LET name == BandTemplate(Lowered(th[t].band))
     IN IF name = "unsupported"
        THEN Raise(t, "InvalidBand")
        ELSE LET c == deepcopy(heap, t, name)
             IN /\ heap' = c.heap
                /\ th' = [th EXCEPT ![t].obs = c.ref, ![t].pc = following("band")]

\* lines 92-93
CheckPsf(t) ==
  /\ th[t].pc = "psf"
  /\ IF ~PsfSupported(th[t].psf_type)
     THEN Raise(t, "UnsupportedPSF")
     ELSE /\ th' = [th EXCEPT ![t].pc = following("psf")]
          /\ heap' = heap

\* lines 95-98
CheckCoadd(t) ==
  /\ th[t].pc = "coadd"
  /\ IF ~CoaddSupported(th[t].coadd_years)
     THEN Raise(t, "InvalidCoaddYears")
     ELSE /\ th' = [th EXCEPT ![t].pc = following("coadd")]
          /\ IF th[t].coadd_years # 10
             THEN heap' = [heap EXCEPT ![th[t].obs] =
                             Store(@, "num_exposures",
                                   ScaledExposures(th[t].coadd_years, @.num_exposures))]
             ELSE heap' = heap

\* lines 100-103, and the return of the constructor
SetCamera(t) ==
  /\ th[t].pc = "camera"
  /\ heap' = Alloc(heap, OwnAddr(t, "camera"), camera_literal)
  /\ th' = [th EXCEPT ![t].camera = OwnAddr(t, "camera"),
                      ![t].pc = following("camera"), ![t].pristine = TRUE]

\* lines 108-114; the caller keeps the result in slot s
kwargs_single_band(t, s) ==
  /\ th[t].pc = "ready"
  /\ th[t].results[s] = None
  /\ LET k == kwargs(heap, th[t], t, s)
     IN /\ heap' = k.heap
        /\ th' = [th EXCEPT ![t].results[s] = k.ref]

\* the caller drops a result
DropResult(t, s) ==
  /\ th[t].pc = "ready"
  /\ th[t].results[s] # None
  /\ th' = [th EXCEPT ![t].results[s] = None]
  /\ heap' = [a \in {x \in DOMAIN heap : x # OwnAddr(t, s)} |-> heap[a]]

\* the caller executes instance.obs[k] = v
MutateObs(t, k, v) ==
  /\ th[t].pc = "ready"
  /\ heap' = [heap EXCEPT ![th[t].obs] = Store(@, k, v)]
  /\ th' = [th EXCEPT ![t].pristine = FALSE]

\* the caller executes instance.camera[k] = v
MutateCamera(t, k, v) ==
  /\ th[t].pc = "ready"
  /\ heap' = [heap EXCEPT ![th[t].camera] = Store(@, k, v)]
  /\ th' = [th EXCEPT ![t].pristine = FALSE]

\* the caller executes result[k] = v on a mapping kwargs_single_band returned
MutateResult(t, s, k, v) ==
  /\ th[t].pc = "ready"
  /\ th[t].results[s] # None
  /\ heap' = [heap EXCEPT ![th[t].results[s]] = Store(@, k, v)]
  /\ UNCHANGED th

Next ==
  \E t \in DOMAIN th :
    \/ Call(t, BandInputs, PsfInputs, CoaddInputs)
    \/ Drop(t)
    \/ SelectBand(t)
    \/ CheckPsf(t)
    \/ CheckCoadd(t)
    \/ SetCamera(t)
    \/ \E s \in Slots : kwargs_single_band(t, s)
    \/ \E s \in Slots : DropResult(t, s)
    \/ \E k \in ObsMutKeys, v \in PokeValues : MutateObs(t, k, v)
    \/ \E k \in CameraMutKeys, v \in PokeValues : MutateCamera(t, k, v)
    \/ \E s \in Slots, k \in ResultMutKeys, v \in PokeValues : MutateResult(t, s, k, v)

NextConc ==
  \E t \in DOMAIN th :
    \/ Call(t, ConcBandInputs, ConcPsfInputs, ConcCoaddInputs)
    \/ Drop(t)
    \/ SelectBand(t)
    \/ CheckPsf(t)
    \/ CheckCoadd(t)
    \/ SetCamera(t)
    \/ \E s \in ConcSlots : kwargs_single_band(t, s)
    \/ \E s \in ConcSlots : DropResult(t, s)
    \/ \E k \in ObsMutKeys, v \in PokeValues : MutateObs(t, k, v)
    \/ \E k \in CameraMutKeys, v \in PokeValues : MutateCamera(t, k, v)
    \/ \E s \in ConcSlots, k \in ResultMutKeys, v \in PokeValues :
         MutateResult(t, s, k, v)

Spec == Init /\ [][Next]_vars

SpecConc == InitConc /\ [][NextConc]_vars

(* ------------------------- claims: vocabulary ------------------------- *)

SupportedBands ==
  {<<c>> : c \in {"u", "g", "r", "i", "z", "y", "U", "G", "R", "I", "Z", "Y"}}

\* the module-level record named after a supported band
TemplateOf(band) ==
  CASE band \in {<<"u">>, <<"U">>} -> "u_band_obs"
    [] band \in {<<"g">>, <<"G">>} -> "g_band_obs"
    [] band \in {<<"r">>, <<"R">>} -> "r_band_obs"
    [] band \in {<<"i">>, <<"I">>} -> "i_band_obs"
    [] band \in {<<"z">>, <<"Z">>} -> "z_band_obs"
    [] band \in {<<"y">>, <<"Y">>} -> "y_band_obs"

ObsKeys ==
  {"exposure_time", "sky_brightness", "magnitude_zero_point", "num_exposures",
   "seeing", "psf_type"}

CameraKeys == {"read_noise", "pixel_scale", "ccd_gain"}

\* the construction a thread asked for has ended, with an instance or a raise
Finished(t) == th[t].pc \in {"idle", "ready"} /\ th[t] # Idle

\* the instance is as its constructor returned it
Fresh(t) == th[t].pc = "ready" /\ th[t].pristine

\* the first check of band, psf_type, coadd_years (in this order) that fails
FirstFailure(t) ==
  IF th[t].band \notin SupportedBands THEN "InvalidBand"
  ELSE IF th[t].psf_type # "GAUSSIAN" THEN "UnsupportedPSF"
  ELSE IF th[t].coadd_years \notin 1 .. 10 THEN "InvalidCoaddYears"
  ELSE "none"

\* this step is a call of kwargs_single_band by t whose result goes to slot s
QueryStep(t, s) == th[t].results[s] = None /\ th'[t].results[s] # None

\* what a thread can reach through its references
Deref(h, r) == IF r = None THEN {} ELSE {h[r]}

View(t) ==
  <<Deref(heap, th[t].obs), Deref(heap, th[t].camera),
    [s \in Slots |-> Deref(heap, th[t].results[s])]>>

\* the references a thread holds are distinct cells, none of them a template
Separate ==
  \A t \in DOMAIN th :
    LET refs == <<th[t].obs, th[t].camera, th[t].results["kwargs1"],
                  th[t].results["kwargs2"]>>
    IN /\ \A n, m \in 1 .. 4 : n # m /\ refs[n] # None => refs[n] # refs[m]
       /\ \A n \in 1 .. 4 : refs[n] # None =>
            /\ refs[n][1] # "module"
            /\ \A u \in DOMAIN th \ {t} :
                 refs[n] \notin {th[u].obs, th[u].camera, th[u].results["kwargs1"],
                                 th[u].results["kwargs2"]}

(* ------------------------------ claims -------------------------------- *)

\* C1: a freshly constructed instance has num_exposures equal to
\* floor(baseline(band) * coadd_years / 10): n is the integer with
\* 10 n <= baseline * coadd_years < 10 n + 10; coadd_years = 10 gives the
\* baseline, band "g" with 5 gives 100 and band "Z" with 1 gives 40.
C1_NumExposuresFloor ==
  \A t \in DOMAIN th :
    Fresh(t) =>
      LET baseline == ModuleDict(TemplateOf(th[t].band)).num_exposures
          n == heap[th[t].obs].num_exposures
          cy == th[t].coadd_years
      IN /\ cy \in 1 .. 10
         /\ 10 * n <= baseline * cy
         /\ baseline * cy < 10 * n + 10
         /\ cy = 10 => n = baseline
         /\ th[t].band = <<"g">> /\ cy = 5 => n = 100
         /\ th[t].band = <<"Z">> /\ cy = 1 => n = 40

C1_Witness ==
  \E t \in DOMAIN th :
    /\ Fresh(t)
    /\ th[t].band = <<"Z">>
    /\ th[t].coadd_years = 1
    /\ heap[th[t].obs].num_exposures = 40

\* C2: whatever constructions (ended by a return or a raise), queries and caller
\* mutations have happened, the six module-level records hold their original
\* values, and the record a construction has just copied is the unscaled one.
C2_TemplatesIntact ==
  /\ \A name \in TemplateNames : heap[ModuleAddr(name)] = ModuleDict(name)
  /\ \A t \in DOMAIN th :
       th[t].pc \in {"psf", "coadd"} =>
         heap[th[t].obs] = ModuleDict(TemplateOf(th[t].band))

C2_Witness ==
  \E t \in DOMAIN th :
    /\ th[t].pc = "ready"
    /\ th[t].band = <<"g">>
    /\ th[t].coadd_years = 5
    /\ heap[th[t].obs].num_exposures = 1
    /\ th[t].results["kwargs1"] # None
    /\ heap[th[t].results["kwargs1"]].read_noise = 1

\* C3: with a band in u, g, r, i, z, y or its uppercase form, psf_type "GAUSSIAN"
\* and coadd_years in 1..10, construction raises nothing, and the fresh instance's
\* exposure_time, sky_brightness, magnitude_zero_point, seeing and psf_type are
\* those of the record named after the band and of no other record.
C3_SelectsNamedTemplate ==
  \A t \in DOMAIN th :
    LET five == ObsKeys \ {"num_exposures"}
    IN /\ ( /\ th[t].band \in SupportedBands
            /\ th[t].psf_type = "GAUSSIAN"
            /\ th[t].coadd_years \in 1 .. 10 ) => th[t].raised = "none"
       /\ Fresh(t) =>
            /\ th[t].band \in SupportedBands
            /\ DOMAIN heap[th[t].obs] = ObsKeys
            /\ \A k \in five :
                 heap[th[t].obs][k] = ModuleDict(TemplateOf(th[t].band))[k]
            /\ \A name \in TemplateNames \ {TemplateOf(th[t].band)} :
                 \E k \in five : heap[th[t].obs][k] # ModuleDict(name)[k]

C3_Witness ==
  \E t \in DOMAIN th :
    /\ Fresh(t)
    /\ th[t].band = <<"R">>
    /\ heap[th[t].obs].sky_brightness = 2120

\* C4: once the band has been examined, a band that is not one of the six codes
\* (after lowercasing an alphabetic argument) has ended the construction with the
\* InvalidBand error and no instance, whatever psf_type and coadd_years are.
C4_InvalidBand ==
  \A t \in DOMAIN th :
    th[t].band \notin SupportedBands /\ th[t].pc # "band" =>
      /\ th[t].pc = "idle"
      /\ th[t].raised = "InvalidBand"
      /\ th[t].obs = None
      /\ th[t].camera = None

C4_Witness ==
  \E t \in DOMAIN th :
    /\ th[t].band = <<"x">>
    /\ th[t].psf_type = "MOFFAT"
    /\ th[t].coadd_years = 11
    /\ th[t].raised = "InvalidBand"

\* C5 as stated: every finished construction with psf_type other than "GAUSSIAN"
\* has raised the UnsupportedPSF error.
C5_Original ==
  \A t \in DOMAIN th :
    Finished(t) /\ th[t].psf_type # "GAUSSIAN" =>
      th[t].pc = "idle" /\ th[t].raised = "UnsupportedPSF"

\* C5 amended: every finished construction with a supported band and a psf_type
\* other than the exact string "GAUSSIAN" ("gaussian" included) has raised the
\* UnsupportedPSF error.
C5_UnsupportedPsf ==
  \A t \in DOMAIN th :
    ( /\ Finished(t)
      /\ th[t].band \in SupportedBands
      /\ th[t].psf_type # "GAUSSIAN" ) =>
      th[t].pc = "idle" /\ th[t].raised = "UnsupportedPSF"

C5_Witness ==
  \E t \in DOMAIN th :
    /\ th[t].band = <<"g">>
    /\ th[t].psf_type = "gaussian"
    /\ th[t].pc = "idle"
    /\ th[t].raised = "UnsupportedPSF"

\* C6 as stated: every finished construction with coadd_years outside [1, 10] has
\* raised the InvalidCoaddYears error, and none with coadd_years inside has.
C6_Original ==
  \A t \in DOMAIN th :
    Finished(t) =>
      /\ th[t].coadd_years \notin 1 .. 10 =>
           th[t].pc = "idle" /\ th[t].raised = "InvalidCoaddYears"
      /\ th[t].coadd_years \in 1 .. 10 => th[t].raised # "InvalidCoaddYears"

\* C6 amended: every finished construction with a supported band, psf_type
\* "GAUSSIAN" and coadd_years outside [1, 10] has raised the InvalidCoaddYears
\* error, and no construction with coadd_years inside [1, 10] has.
C6_InvalidCoaddYears ==
  \A t \in DOMAIN th :
    Finished(t) =>
      /\ ( /\ th[t].band \in SupportedBands
           /\ th[t].psf_type = "GAUSSIAN"
           /\ th[t].coadd_years \notin 1 .. 10 ) =>
           th[t].pc = "idle" /\ th[t].raised = "InvalidCoaddYears"
      /\ th[t].coadd_years \in 1 .. 10 => th[t].raised # "InvalidCoaddYears"

C6_Witness ==
  \E t \in DOMAIN th :
    /\ th[t].coadd_years = 0
    /\ th[t].pc = "idle"
    /\ th[t].raised = "InvalidCoaddYears"

\* C7: the mapping a call of kwargs_single_band returns has the keys of the camera
\* record and of the observation state, each with the value of the record it comes
\* from, an observation value winning on a shared key; on a fresh instance the two
\* key sets are disjoint, the keys are exactly the nine, and read_noise is 10,
\* pixel_scale 0.2 and ccd_gain 2.3.
C7_MergedKeysAndValues ==
  [][\A t \in DOMAIN th : \A s \in Slots :
       QueryStep(t, s) =>
         LET r == heap'[th'[t].results[s]]
             o == heap[th[t].obs]
             c == heap[th[t].camera]
         IN /\ DOMAIN r = DOMAIN c \cup DOMAIN o
            /\ \A k \in DOMAIN o : r[k] = o[k]
            /\ \A k \in DOMAIN c \ DOMAIN o : r[k] = c[k]
            /\ th[t].pristine =>
                 /\ DOMAIN o = ObsKeys
                 /\ DOMAIN c = CameraKeys
                 /\ DOMAIN r = ObsKeys \cup CameraKeys
                 /\ ObsKeys \cap CameraKeys = {}
                 /\ r.read_noise = 10
                 /\ r.pixel_scale = 20
                 /\ r.ccd_gain = 230]_vars

C7_Witness ==
  \E t \in DOMAIN th :
    /\ th[t].pc = "ready"
    /\ "read_noise" \in DOMAIN heap[th[t].obs]
    /\ heap[th[t].camera].read_noise = 10
    /\ th[t].results["kwargs1"] # None
    /\ heap[th[t].results["kwargs1"]].read_noise = 1
    /\ th[t].results["kwargs2"] = None

\* C8: a call of kwargs_single_band leaves the instance's camera and observation
\* state and every earlier result as they were, returns a new mapping equal to what
\* the next call returns, and a store into one result changes neither the other
\* result nor the instance's state.
C8_PureQueryFreshResult ==
  [][\A t \in DOMAIN th : \A s \in Slots :
       /\ QueryStep(t, s) =>
            /\ th'[t].obs = th[t].obs
            /\ th'[t].camera = th[t].camera
            /\ heap'[th[t].obs] = heap[th[t].obs]
            /\ heap'[th[t].camera] = heap[th[t].camera]
            /\ th'[t].results[s] \notin DOMAIN heap
            /\ \A s2 \in Slots \ {s} :
                 /\ th'[t].results[s2] = th[t].results[s2]
                 /\ Deref(heap', th[t].results[s2]) = Deref(heap, th[t].results[s2])
            /\ LET o == heap'[th'[t].obs]
                   c == heap'[th'[t].camera]
               IN heap'[th'[t].results[s]] =
                    [k \in DOMAIN c \cup DOMAIN o |->
                       IF k \in DOMAIN o THEN o[k] ELSE c[k]]
       /\ ( /\ th' = th
            /\ th[t].results[s] # None
            /\ heap'[th[t].results[s]] # heap[th[t].results[s]] ) =>
            /\ heap'[th[t].obs] = heap[th[t].obs]
            /\ heap'[th[t].camera] = heap[th[t].camera]
            /\ \A s2 \in Slots \ {s} :
                 Deref(heap', th[t].results[s2]) = Deref(heap, th[t].results[s2])]_vars

C8_Witness ==
  \E t \in DOMAIN th :
    /\ Fresh(t)
    /\ th[t].results["kwargs1"] # None
    /\ th[t].results["kwargs2"] # None
    /\ heap[th[t].results["kwargs1"]].num_exposures = 1
    /\ heap[th[t].results["kwargs2"]].num_exposures = heap[th[t].obs].num_exposures
    /\ heap[th[t].obs].num_exposures # 1

\* C9: with two threads constructing, querying and mutating in any interleaving,
\* no step changes what two threads see through their references, and the cells a
\* thread's instance and results refer to are referred to by nothing else.
C9_NoAliasing ==
  [][/\ \A t, u \in DOMAIN th :
          t # u /\ View(t)' # View(t) => View(u)' = View(u)
     /\ Separate']_vars

C9_Witness ==
  /\ th["t1"].pc = "ready"
  /\ th["t2"].pc = "ready"
  /\ th["t1"].band = <<"g">>
  /\ th["t2"].band = <<"g">>
  /\ heap[th["t1"].obs].num_exposures = 1
  /\ heap[th["t1"].camera].read_noise = 1
  /\ th["t2"].pristine
  /\ heap[th["t2"].obs].num_exposures = 100
  /\ th["t2"].results["kwargs1"] # None
  /\ heap[th["t2"].results["kwargs1"]] = [k \in ObsKeys \cup CameraKeys |->
       IF k \in ObsKeys THEN heap[th["t2"].obs][k] ELSE camera_literal[k]]

\* C10: a finished construction has raised the error of the first check that
\* fails in the order band, psf_type, coadd_years, and nothing when none fails.
C10_FirstFailureOnly ==
  \A t \in DOMAIN th :
    Finished(t) =>
      /\ th[t].raised = FirstFailure(t)
      /\ th[t].pc = "ready" <=> FirstFailure(t) = "none"

C10_Witness ==
  \E t \in DOMAIN th :
    /\ th[t].band = <<"G">>
    /\ th[t].psf_type = "MOFFAT"
    /\ th[t].coadd_years = 11
    /\ th[t].pc = "idle"
    /\ th[t].raised = "UnsupportedPSF"

====
